---- MODULE Spec2Model ----
(***************************************************************************)
(* multi_tool_agent/agent.py: the start-up of the script (environment,     *)
(* API-key check, agent construction), its three scripted prompts, and the *)
(* two tools get_weather and get_current_time the agent runtime invokes.   *)
(*                                                                         *)
(* A Python str is a sequence of one-character strings, so that lower(),   *)
(* f-string interpolation and strftime are computed character by           *)
(* character.  A dict is a function from its keys to its values.           *)
(***************************************************************************)
EXTENDS Integers, Sequences, FiniteSets, TLC

\* The number of tool calls the agent runtime starts in one run.
MaxCalls == 3

(***************************************************************************)
(* Text                                                                    *)
(***************************************************************************)

UpperLetters == << "A", "B", "C", "D", "E", "F", "G", "H", "I", "J", "K",
                   "L", "M", "N", "O", "P", "Q", "R", "S", "T", "U", "V",
                   "W", "X", "Y", "Z" >>

LowerLetters == << "a", "b", "c", "d", "e", "f", "g", "h", "i", "j", "k",
                   "l", "m", "n", "o", "p", "q", "r", "s", "t", "u", "v",
                   "w", "x", "y", "z" >>

\* str.lower() on one character of the inputs' alphabet.
lower_char(ch) ==
    IF \E i \in 1..Len(UpperLetters) : UpperLetters[i] = ch
    THEN LowerLetters[CHOOSE i \in 1..Len(UpperLetters) : UpperLetters[i] = ch]
    ELSE ch

\* city.lower()
lower(s) == [i \in 1..Len(s) |-> lower_char(s[i])]

\* The literal both tools compare the lowercased city with.
NewYorkLiteral == << "n", "e", "w", " ", "y", "o", "r", "k" >>

\* The city arguments the callers pass: the supported city in three
\* casings, with surrounding whitespace, the empty string and another city.
Cities ==
    { << "n", "e", "w", " ", "y", "o", "r", "k" >>,
      << "N", "e", "w", " ", "Y", "o", "r", "k" >>,
      << "N", "E", "W", " ", "Y", "O", "R", "K" >>,
      << " ", "n", "e", "w", " ", "y", "o", "r", "k", " " >>,
      <<>>,
      << "L", "o", "n", "d", "o", "n" >> }

\* A faulty variant: the comparison without lower().
IsSupported_NoLower(city) == city = NewYorkLiteral

\* city.lower() == "new york"
IsSupported(city) == lower(city) = NewYorkLiteral

(***************************************************************************)
(* get_weather: the dict it builds                                         *)
(***************************************************************************)

WeatherReport ==
    << "T", "h", "e", " ", "w", "e", "a", "t", "h", "e", "r", " ", "i", "n",
       " ", "N", "e", "w", " ", "Y", "o", "r", "k", " ", "i", "s", " ",
       "s", "u", "n", "n", "y", " ", "w", "i", "t", "h", " ", "a", " ",
       "t", "e", "m", "p", "e", "r", "a", "t", "u", "r", "e", " ", "o",
       "f", " ", "2", "5", " ", "d", "e", "g", "r", "e", "e", "s" >>
    \o << " ", "C", "e", "l", "s", "i", "u", "s", " ", "(", "7", "7", " ",
          "d", "e", "g", "r", "e", "e", "s", " ", "F", "a", "h", "r", "e",
          "n", "h", "e", "i", "t", ")", "." >>

weather_error_message(city) ==
    << "W", "e", "a", "t", "h", "e", "r", " ", "i", "n", "f", "o", "r", "m",
       "a", "t", "i", "o", "n", " ", "f", "o", "r", " ", "'" >>
    \o city
    \o << "'", " ", "i", "s", " ", "n", "o", "t", " ", "a", "v", "a", "i",
          "l", "a", "b", "l", "e", "." >>

(***************************************************************************)
(* get_current_time: zone resolution, clock read, formatting               *)
(***************************************************************************)

TzIdentifier == "America/New_York"

\* The instants (seconds since the epoch) the clock may show when read: a
\* winter morning (EST), a summer morning (EDT), the first second of
\* daylight time in 2025, and the last second of the local year 2024.
ClockReadings == { 1762258391, 1751373296, 1741503600, 1735707599 }

\* Days since 1970-01-01 of a civil date (proleptic Gregorian calendar).
DaysFromCivil(y, m, d) ==
    LET yy  == IF m <= 2 THEN y - 1 ELSE y
        era == yy \div 400
        yoe == yy - era * 400
        mp  == IF m > 2 THEN m - 3 ELSE m + 9
        doy == (153 * mp + 2) \div 5 + d - 1
        doe == yoe * 365 + yoe \div 4 - yoe \div 100 + doy
    IN  era * 146097 + doe - 719468

\* The civil date of a day number.
CivilFromDays(days) ==
    LET z   == days + 719468
        era == z \div 146097
        doe == z - era * 146097
        yoe == (doe - doe \div 1460 + doe \div 36524 - doe \div 146096) \div 365
        doy == doe - (365 * yoe + yoe \div 4 - yoe \div 100)
        mp  == (5 * doy + 2) \div 153
        d   == doy - (153 * mp + 2) \div 5 + 1
        m   == IF mp < 10 THEN mp + 3 ELSE mp - 9
        y   == yoe + era * 400 + (IF m <= 2 THEN 1 ELSE 0)
    IN  [year |-> y, month |-> m, day |-> d]

\* 0 = Sunday; 1970-01-01 was a Thursday.
Weekday(days) == (days + 4) % 7

\* The first Sunday on or after the first of month m of year y.
FirstSunday(y, m) ==
    LET d1 == DaysFromCivil(y, m, 1)
    IN  d1 + ((7 - Weekday(d1)) % 7)

\* America/New_York since 2007: daylight time from the second Sunday of
\* March, 02:00 EST (07:00 UTC), to the first Sunday of November, 02:00 EDT
\* (06:00 UTC).
IsDaylight(instant) ==
    LET y      == CivilFromDays(instant \div 86400).year
        start  == (FirstSunday(y, 3) + 7) * 86400 + 7 * 3600
        finish == FirstSunday(y, 11) * 86400 + 6 * 3600
    IN  start <= instant /\ instant < finish

\* A faulty variant: the clock read without the zone (UTC wall-clock fields).
datetime_now_utc(instant) ==
    LET civ == CivilFromDays(instant \div 86400)
        sod == instant % 86400
    IN  [year |-> civ.year, month |-> civ.month, day |-> civ.day,
         hour |-> sod \div 3600, minute |-> (sod % 3600) \div 60,
         second |-> sod % 60,
         tzname |-> << "U", "T", "C" >>, utcoffset |-> 0]

\* datetime.datetime.now(tz) for tz = ZoneInfo("America/New_York"): the
\* aware wall-clock time of the instant the clock shows.
datetime_now(instant) ==
    LET dst == IsDaylight(instant)
        off == IF dst THEN -14400 ELSE -18000
        loc == instant + off
        civ == CivilFromDays(loc \div 86400)
        sod == loc % 86400
    IN  [year |-> civ.year, month |-> civ.month, day |-> civ.day,
         hour |-> sod \div 3600, minute |-> (sod % 3600) \div 60,
         second |-> sod % 60,
         tzname |-> IF dst THEN << "E", "D", "T" >> ELSE << "E", "S", "T" >>,
         utcoffset |-> off]

\* datetime_now on the readings of the clock.
AwareNow == [instant \in ClockReadings |-> datetime_now(instant)]

DigitChars == << "0", "1", "2", "3", "4", "5", "6", "7", "8", "9" >>

Pad2(n) == << DigitChars[((n \div 10) % 10) + 1], DigitChars[(n % 10) + 1] >>

Pad4(n) == Pad2(n \div 100) \o Pad2(n % 100)

\* %z: the sign, then the hours and minutes of the offset.
FormatOffset(off) ==
    LET a == IF off < 0 THEN -off ELSE off
    IN  (IF off < 0 THEN << "-" >> ELSE << "+" >>)
        \o Pad2(a \div 3600) \o Pad2((a % 3600) \div 60)

\* now.strftime("%Y-%m-%d %H:%M:%S %Z%z")
strftime(now) ==
    Pad4(now.year) \o << "-" >> \o Pad2(now.month) \o << "-" >> \o Pad2(now.day)
    \o << " " >>
    \o Pad2(now.hour) \o << ":" >> \o Pad2(now.minute) \o << ":" >>
    \o Pad2(now.second)
    \o << " " >> \o now.tzname \o FormatOffset(now.utcoffset)

time_report(city, now) ==
    << "T", "h", "e", " ", "c", "u", "r", "r", "e", "n", "t", " ", "t", "i",
       "m", "e", " ", "i", "n", " " >>
    \o city
    \o << " ", "i", "s", " " >>
    \o strftime(now)

time_unsupported_message(city) ==
    << "S", "o", "r", "r", "y", ",", " ", "I", " ", "d", "o", "n", "'", "t",
       " ", "h", "a", "v", "e", " ", "t", "i", "m", "e", "z", "o", "n",
       "e", " ", "i", "n", "f", "o", "r", "m", "a", "t", "i", "o", "n",
       " ", "f", "o", "r", " " >>
    \o city
    \o << "." >>

time_failure_message(city, e) ==
    << "E", "r", "r", "o", "r", " ", "g", "e", "t", "t", "i", "n", "g", " ",
       "t", "i", "m", "e", " ", "f", "o", "r", " " >>
    \o city
    \o << ":", " " >>
    \o e.msg

(***************************************************************************)
(* State                                                                   *)
(***************************************************************************)

VARIABLES
    environ,         \* os.environ["GOOGLE_API_KEY"], NoneValue when not set
    platform,        \* what the host lacks: a zone database, a clock, ...
    pc,              \* the statement the script is at
    GOOGLE_API_KEY,  \* the module's global
    root_agent,      \* the module's global
    uncaught,        \* the exception that ended the script, "" when none
    prompts,         \* the prompts passed to root_agent.execute, in order
    last_printed,    \* the line the script itself printed last
    diag,            \* the number of "--- Tool: ..." lines the tools printed
    frame,           \* per caller of a tool: the frame of its call
    heap,            \* the dicts the calls created and still refer to
    allocations,     \* the number of dicts created so far
    ncalls           \* the number of tool calls started so far

script_vars ==
    << pc, GOOGLE_API_KEY, root_agent, uncaught, prompts, last_printed >>

module_globals == << environ, GOOGLE_API_KEY, root_agent >>

tool_vars == << diag, frame, heap, allocations, ncalls >>

vars == << environ, platform, pc, GOOGLE_API_KEY, root_agent, uncaught,
           prompts, last_printed, diag, frame, heap, allocations, ncalls >>

NoneValue == "<None>"

Unbound == "<unbound>"

\* The threads in which the agent runtime calls the tools.
Callers == { "c1", "c2" }

ToolNames == { "get_weather", "get_current_time" }

Platforms == { "ok", "no_tzdata", "no_clock", "no_strftime" }

\* No exception is being handled.
NoException == [type |-> "", msg |-> <<>>]

NoDatetime ==
    [year |-> 0, month |-> 0, day |-> 0, hour |-> 0, minute |-> 0,
     second |-> 0, tzname |-> <<>>, utcoffset |-> 0]

\* A caller that is in no call.
IdleFrame ==
    [pc |-> "idle", fn |-> "", city |-> <<>>,
     tz_identifier |-> Unbound, tz |-> Unbound,
     instant |-> 0, now |-> NoDatetime, exc |-> NoException,
     tried |-> {}, result |-> 0]

(***************************************************************************)
(* The dicts the tools return                                              *)
(***************************************************************************)

\* A faulty variant: the error message built from the lowercased city.
get_weather_result_Lowered(city) ==
    IF IsSupported(city)
    THEN [status |-> "success", report |-> WeatherReport]
    ELSE [status |-> "error",
          error_message |-> weather_error_message(lower(city))]

\* A faulty variant: a tool that counts its calls and refuses after the first.
get_weather_result_Counting(city) ==
    IF IsSupported(city) /\ ncalls <= 1
    THEN [status |-> "success", report |-> WeatherReport]
    ELSE [status |-> "error", error_message |-> weather_error_message(city)]

\* The dict of lines 29-35 or of lines 37-40.
get_weather_result(city) ==
    IF IsSupported(city)
    THEN [status |-> "success", report |-> WeatherReport]
    ELSE [status |-> "error", error_message |-> weather_error_message(city)]

time_unsupported_result(city) ==
    [status |-> "error", error_message |-> time_unsupported_message(city)]

time_success_result(city, now) ==
    [status |-> "success", report |-> time_report(city, now)]

\* A faulty variant: the failure reported under the report key.
time_failure_result_ReportKey(city, e) ==
    [status |-> "error", report |-> time_failure_message(city, e)]

time_failure_result(city, e) ==
    [status |-> "error", error_message |-> time_failure_message(city, e)]

(***************************************************************************)
(* Exceptions                                                              *)
(***************************************************************************)

\* ZoneInfo(key) without a time zone database; str() of a KeyError is the
\* repr of its argument.
ZoneInfoNotFoundError ==
    [type |-> "ZoneInfoNotFoundError",
     msg  |-> << "'", "N", "o", " ", "t", "i", "m", "e", " ", "z", "o", "n",
                 "e", " ", "f", "o", "u", "n", "d", " ", "w", "i", "t",
                 "h", " ", "k", "e", "y", " ", "A", "m", "e", "r", "i",
                 "c", "a", "/", "N", "e", "w", "_", "Y", "o", "r", "k", "'" >>]

\* A clock read the platform refuses.
ClockError == [type |-> "OSError", msg |-> << "[", "E", "r", "r", "n", "o",
                                              " ", "2", "2", "]", " ", "I",
                                              "n", "v", "a", "l", "i", "d",
                                              " ", "a", "r", "g", "u", "m",
                                              "e", "n", "t" >>]

\* A format the platform's strftime refuses.
FormatError == [type |-> "ValueError", msg |-> << "I", "n", "v", "a", "l",
                                                  "i", "d", " ", "f", "o",
                                                  "r", "m", "a", "t", " ",
                                                  "s", "t", "r", "i", "n",
                                                  "g" >>]

\* A read of tz_identifier on a path that never assigned it.
UnboundLocalError ==
    [type |-> "UnboundLocalError",
     msg  |-> << "c", "a", "n", "n", "o", "t", " ", "a", "c", "c", "e", "s",
                 "s", " ", "l", "o", "c", "a", "l", " ", "v", "a", "r",
                 "i", "a", "b", "l", "e", " ", "'", "t", "z", "_", "i",
                 "d", "e", "n", "t", "i", "f", "i", "e", "r", "'" >>]

\* The classes above all derive from Exception.
ExceptionSubclasses ==
    { "ZoneInfoNotFoundError", "OSError", "ValueError", "UnboundLocalError" }

\* A faulty variant: a handler for the zone lookup's error alone.
Caught_ZoneInfoOnly(e) == e.type = "ZoneInfoNotFoundError"

\* except Exception as e
Caught(e) == e.type \in ExceptionSubclasses

\* The three prompts of the script, in its order.
Stages == << "weather", "time", "unsupported" >>

Prompt(stage) ==
    CASE stage = "weather"     -> "What's the weather like in New York?"
      [] stage = "time"        -> "What time is it in New York?"
      [] stage = "unsupported" -> "What's the weather in London?"

StageIndex(stage) == CHOOSE i \in 1..Len(Stages) : Stages[i] = stage

\* The statement after the try statement of a stage.
AfterStage(stage) ==
    IF StageIndex(stage) < Len(Stages)
    THEN << "ask", Stages[StageIndex(stage) + 1] >>
    ELSE << "finish", "" >>

Init ==
    /\ environ \in { NoneValue, "", "key" }
    /\ platform \in Platforms
    /\ pc = << "load_dotenv", "" >>
    /\ GOOGLE_API_KEY = Unbound
    /\ root_agent = Unbound
    /\ uncaught = ""
    /\ prompts = <<>>
    /\ last_printed = ""
    /\ diag = 0
    /\ frame = [t \in Callers |-> IdleFrame]
    /\ heap = <<>>
    /\ allocations = 0
    /\ ncalls = 0

(***************************************************************************)
(* The script                                                              *)
(***************************************************************************)

\* Line 8: a variable the .env file sets is added to the environment
\* unless the environment already has it.
LoadDotenv ==
    /\ pc = << "load_dotenv", "" >>
    /\ \E file \in { NoneValue, "", "key" } :
         environ' = IF environ = NoneValue THEN file ELSE environ
    /\ pc' = << "getenv", "" >>
    /\ UNCHANGED << platform, GOOGLE_API_KEY, root_agent, uncaught, prompts,
                    last_printed, tool_vars >>

\* Line 11.
GetEnv ==
    /\ pc = << "getenv", "" >>
    /\ GOOGLE_API_KEY' = environ
    /\ pc' = << "check_key", "" >>
    /\ UNCHANGED << environ, platform, root_agent, uncaught, prompts,
                    last_printed, tool_vars >>

\* A faulty variant: a check for None alone.
Falsy_NoneOnly(v) == v = NoneValue

\* not v, for v None or a str.
Falsy(v) == v = NoneValue \/ v = ""

\* Lines 14-15.
CheckKey ==
    /\ pc = << "check_key", "" >>
    /\ IF Falsy(GOOGLE_API_KEY)
       THEN /\ uncaught' = "ValueError"
            /\ pc' = << "exit", "" >>
       ELSE /\ uncaught' = uncaught
            /\ pc' = << "construct_agent", "" >>
    /\ UNCHANGED << environ, platform, GOOGLE_API_KEY, root_agent, prompts,
                    last_printed, tool_vars >>

\* Lines 88-106: the constructor of the framework returns the agent or
\* raises; nothing catches what it raises.
ConstructAgent ==
    /\ pc = << "construct_agent", "" >>
    /\ \/ /\ root_agent' = "weather_time_agent"
          /\ last_printed' = "Agent Initialized. Starting interaction..."
          /\ pc' = << "ask", Stages[1] >>
          /\ uncaught' = uncaught
       \/ /\ uncaught' = "AgentError"
          /\ pc' = << "exit", "" >>
          /\ UNCHANGED << root_agent, last_printed >>
    /\ UNCHANGED << environ, platform, GOOGLE_API_KEY, prompts, tool_vars >>

\* Lines 109-112, 125-128, 138-141: the print before the try statement and
\* the call of root_agent.execute.
Ask(stage) ==
    /\ pc = << "ask", stage >>
    /\ last_printed' = "Asking: " \o stage
    /\ prompts' = Append(prompts, Prompt(stage))
    /\ pc' = << "execute", stage >>
    /\ UNCHANGED << environ, platform, GOOGLE_API_KEY, root_agent, uncaught,
                    tool_vars >>

\* A faulty variant: the statement after a handler that re-raises.
AfterHandler_Reraise(stage) == << "exit", "" >>

\* The statement after the except clause of a stage.
AfterHandler(stage) == AfterStage(stage)

\* Lines 113-114, 129-130, 142-143: execute returned, its result is printed.
ExecuteReturn(stage) ==
    /\ pc = << "execute", stage >>
    /\ \A t \in Callers : frame[t].pc = "idle"
    /\ last_printed' = "Result: " \o stage
    /\ pc' = AfterStage(stage)
    /\ UNCHANGED << environ, platform, GOOGLE_API_KEY, root_agent, uncaught,
                    prompts, tool_vars >>

\* Lines 119-122, 133-136, 146-149: execute raised an Exception (its own,
\* or one a tool let through); the handler prints it.
ExecuteRaise(stage) ==
    /\ pc = << "execute", stage >>
    /\ \A t \in Callers : frame[t].pc \in { "idle", "raised" }
    /\ frame' = [t \in Callers |-> IdleFrame]
    /\ last_printed' = "Error during execution: " \o stage
    /\ pc' = AfterHandler(stage)
    /\ uncaught' = IF pc' = << "exit", "" >> THEN "Exception" ELSE uncaught
    /\ UNCHANGED << environ, platform, GOOGLE_API_KEY, root_agent, prompts,
                    diag, heap, allocations, ncalls >>

\* Line 151.
Finish ==
    /\ pc = << "finish", "" >>
    /\ last_printed' = "Interaction finished."
    /\ pc' = << "done", "" >>
    /\ UNCHANGED << environ, platform, GOOGLE_API_KEY, root_agent, uncaught,
                    prompts, tool_vars >>

ScriptStep ==
    \/ LoadDotenv
    \/ GetEnv
    \/ CheckKey
    \/ ConstructAgent
    \/ \E stage \in { "weather", "time", "unsupported" } : Ask(stage)
    \/ \E stage \in { "weather", "time", "unsupported" } : ExecuteReturn(stage)
    \/ \E stage \in { "weather", "time", "unsupported" } : ExecuteRaise(stage)
    \/ Finish

(***************************************************************************)
(* The tools, statement by statement, in the frame of caller t             *)
(***************************************************************************)

\* A faulty variant: one dict of the module, reused by every call.
new_dict_id_Shared(n) == 1

\* A dict display creates a new object: an identity no other dict has.
new_dict_id(n) == n + 1

\* heap with dict d stored under identity id.
Store(h, id, d) ==
    [i \in (DOMAIN h) \cup { id } |-> IF i = id THEN d ELSE h[i]]

\* heap without the dicts that no frame of f refers to.
Collect(h, f) ==
    [i \in { j \in DOMAIN h : \E t \in Callers : f[t].result = j } |-> h[i]]

\* The runtime calls tool fn with argument city, while it executes a prompt.
Invoke(t, fn, city) ==
    /\ pc[1] = "execute"
    /\ frame[t].pc = "idle"
    /\ ncalls < MaxCalls
    /\ ncalls' = ncalls + 1
    /\ frame' = [frame EXCEPT ![t] =
                   [IdleFrame EXCEPT !.pc = IF fn = "get_weather"
                                            THEN "gw_27" ELSE "gct_54",
                                     !.fn = fn, !.city = city]]
    /\ UNCHANGED << environ, platform, script_vars, diag, heap, allocations >>

\* get_weather, lines 27-40.
GW_Compare(t) ==
    /\ frame[t].pc = "gw_27"
    /\ diag' = diag + 1
    /\ LET id == new_dict_id(allocations)
       IN  /\ heap' = Store(heap, id, get_weather_result(frame[t].city))
           /\ frame' = [frame EXCEPT ![t].result = id, ![t].pc = "gw_41"]
    /\ allocations' = allocations + 1
    /\ UNCHANGED << environ, platform, script_vars, ncalls >>

\* get_weather, lines 41-42.
GW_Return(t) ==
    /\ frame[t].pc = "gw_41"
    /\ diag' = diag + 1
    /\ frame' = [frame EXCEPT ![t].pc = "returned"]
    /\ UNCHANGED << environ, platform, script_vars, heap, allocations, ncalls >>

\* A faulty variant: an else branch that does not return.
gct_branch_target_FallThrough(city) == "gct_68"

\* Where get_current_time goes after its if statement: to the try
\* statement, or to the return of the else branch.
gct_branch_target(city) == IF IsSupported(city) THEN "gct_68" ELSE "gct_64"

\* get_current_time, lines 54-63.
GCT_Compare(t) ==
    /\ frame[t].pc = "gct_54"
    /\ diag' = diag + 1
    /\ IF IsSupported(frame[t].city)
       THEN /\ frame' = [frame EXCEPT
                           ![t].tz_identifier = TzIdentifier,
                           ![t].pc = gct_branch_target(frame[t].city)]
            /\ UNCHANGED << heap, allocations >>
       ELSE LET id == new_dict_id(allocations)
            IN  /\ heap' = Store(heap, id,
                                 time_unsupported_result(frame[t].city))
                /\ frame' = [frame EXCEPT
                               ![t].result = id,
                               ![t].pc = gct_branch_target(frame[t].city)]
                /\ allocations' = allocations + 1
    /\ UNCHANGED << environ, platform, script_vars, ncalls >>

\* get_current_time, lines 64-65.
GCT_ReturnUnsupported(t) ==
    /\ frame[t].pc = "gct_64"
    /\ diag' = diag + 1
    /\ frame' = [frame EXCEPT ![t].pc = "returned"]
    /\ UNCHANGED << environ, platform, script_vars, heap, allocations, ncalls >>

\* get_current_time, line 68: tz = ZoneInfo(tz_identifier).
GCT_ZoneInfo(t) ==
    /\ frame[t].pc = "gct_68"
    /\ LET f == [frame[t] EXCEPT !.tried = @ \cup { "ZoneInfo" }]
       IN  frame' = [frame EXCEPT ![t] =
             IF f.tz_identifier = Unbound
             THEN [f EXCEPT !.exc = UnboundLocalError, !.pc = "gct_74"]
             ELSE IF platform = "no_tzdata"
             THEN [f EXCEPT !.exc = ZoneInfoNotFoundError, !.pc = "gct_74"]
             ELSE [f EXCEPT !.tz = f.tz_identifier, !.pc = "gct_69"]]
    /\ UNCHANGED << environ, platform, script_vars, diag, heap, allocations,
                    ncalls >>

\* get_current_time, line 69: now = datetime.datetime.now(tz).
GCT_Now(t) ==
    /\ frame[t].pc = "gct_69"
    /\ LET f == [frame[t] EXCEPT !.tried = @ \cup { "now" }]
       IN  IF platform = "no_clock"
           THEN frame' = [frame EXCEPT ![t] =
                            [f EXCEPT !.exc = ClockError, !.pc = "gct_74"]]
           ELSE \E instant \in ClockReadings :
                  frame' = [frame EXCEPT ![t] =
                              [f EXCEPT !.instant = instant,
                                        !.now = AwareNow[instant],
                                        !.pc = "gct_70"]]
    /\ UNCHANGED << environ, platform, script_vars, diag, heap, allocations,
                    ncalls >>

\* get_current_time, lines 70-73.
GCT_Format(t) ==
    /\ frame[t].pc = "gct_70"
    /\ LET f == [frame[t] EXCEPT !.tried = @ \cup { "strftime" }]
           id == new_dict_id(allocations)
       IN  IF platform = "no_strftime"
           THEN /\ frame' = [frame EXCEPT ![t] =
                               [f EXCEPT !.exc = FormatError, !.pc = "gct_74"]]
                /\ UNCHANGED << heap, allocations >>
           ELSE /\ heap' = Store(heap, id, time_success_result(f.city, f.now))
                /\ frame' = [frame EXCEPT ![t] =
                               [f EXCEPT !.result = id, !.pc = "gct_79"]]
                /\ allocations' = allocations + 1
    /\ UNCHANGED << environ, platform, script_vars, diag, ncalls >>

\* get_current_time, lines 74-78: the handler, or the exception leaving
\* the function when the except clause does not match it.
GCT_Except(t) ==
    /\ frame[t].pc = "gct_74"
    /\ IF Caught(frame[t].exc)
       THEN LET id == new_dict_id(allocations)
            IN  /\ heap' = Store(heap, id,
                      time_failure_result(frame[t].city, frame[t].exc))
                /\ frame' = [frame EXCEPT ![t].result = id, ![t].pc = "gct_79"]
                /\ allocations' = allocations + 1
       ELSE /\ frame' = [frame EXCEPT ![t].pc = "raised"]
            /\ UNCHANGED << heap, allocations >>
    /\ UNCHANGED << environ, platform, script_vars, diag, ncalls >>

\* get_current_time, lines 79-80.
GCT_Return(t) ==
    /\ frame[t].pc = "gct_79"
    /\ diag' = diag + 1
    /\ frame' = [frame EXCEPT ![t].pc = "returned"]
    /\ UNCHANGED << environ, platform, script_vars, heap, allocations, ncalls >>

\* The runtime takes the returned dict; the call's frame is gone.
Consume(t) ==
    /\ frame[t].pc = "returned"
    /\ frame' = [frame EXCEPT ![t] = IdleFrame]
    /\ heap' = Collect(heap, frame')
    /\ UNCHANGED << environ, platform, script_vars, diag, allocations, ncalls >>

\* A step inside a tool call.
ToolStep(t) ==
    \/ GW_Compare(t)
    \/ GW_Return(t)
    \/ GCT_Compare(t)
    \/ GCT_ReturnUnsupported(t)
    \/ GCT_ZoneInfo(t)
    \/ GCT_Now(t)
    \/ GCT_Format(t)
    \/ GCT_Except(t)
    \/ GCT_Return(t)

\* What the runtime does with the callers T while it executes a prompt.
RuntimeStep(T) ==
    \/ \E t \in T, fn \in ToolNames, city \in Cities : Invoke(t, fn, city)
    \/ \E t \in T : ToolStep(t)
    \/ \E t \in T : Consume(t)

Next == ScriptStep \/ RuntimeStep(Callers)

\* The script under a runtime that calls the tools from several threads.
Spec == Init /\ [][Next]_vars

SequentialNext == ScriptStep \/ RuntimeStep({ "c1" })

\* The script under a runtime that calls the tools one at a time: the
\* interpreter runs the script's next statement, a started tool call runs
\* to its return, and the runtime takes what a tool returned.
SequentialSpec ==
    /\ Init
    /\ [][SequentialNext]_vars
    /\ WF_vars(ScriptStep)
    /\ WF_vars(ToolStep("c1") \/ Consume("c1"))

(***************************************************************************)
(* Properties                                                              *)
(***************************************************************************)

Returned(t) == frame[t].pc = "returned"

\* The dict a returned call handed to its caller.
Result(t) == heap[frame[t].result]

Supported(t) == lower(frame[t].city) = << "n", "e", "w", " ", "y", "o", "r",
                                          "k" >>

IsDigit(ch) == \E i \in 1..10 : DigitChars[i] = ch

DigitValue(ch) == (CHOOSE i \in 1..10 : DigitChars[i] = ch) - 1

\* The number written in s[from..to].
Number(s, from, to) ==
    LET RECURSIVE Value(_)
        Value(i) == IF i < from THEN 0
                    ELSE 10 * Value(i - 1) + DigitValue(s[i])
    IN  Value(to)

\* C1: the mapping a tool returns has a status of "success" or "error",
\* with a report and no error_message on success, and an error_message and
\* no report on error.
C1_ResultShape ==
    \A t \in Callers :
      Returned(t) =>
        LET d == Result(t)
        IN  /\ "status" \in DOMAIN d
            /\ d.status \in { "success", "error" }
            /\ d.status = "success" => DOMAIN d = { "status", "report" }
            /\ d.status = "error" => DOMAIN d = { "status", "error_message" }

C1_Witness ==
    /\ Returned("c1") /\ Result("c1").status = "success"
    /\ Returned("c2") /\ Result("c2").status = "error"
    /\ frame["c2"].exc # NoException

\* C2: get_weather of a city whose lowercased form is not "new york"
\* returns the error variant, its message quoting the argument as given.
C2_WeatherUnsupported ==
    \A t \in Callers :
      (Returned(t) /\ frame[t].fn = "get_weather" /\ ~Supported(t)) =>
        Result(t) =
          [status |-> "error",
           error_message |->
             << "W", "e", "a", "t", "h", "e", "r", " ", "i", "n", "f", "o",
                "r", "m", "a", "t", "i", "o", "n", " ", "f", "o", "r", " ",
                "'" >> \o frame[t].city
             \o << "'", " ", "i", "s", " ", "n", "o", "t", " ", "a", "v",
                   "a", "i", "l", "a", "b", "l", "e", "." >>]

C2_Witness ==
    /\ Returned("c1") /\ frame["c1"].fn = "get_weather"
    /\ frame["c1"].city = <<>>
    /\ Returned("c2") /\ frame["c2"].fn = "get_weather"
    /\ frame["c2"].city = << " ", "n", "e", "w", " ", "y", "o", "r", "k",
                             " " >>

\* C3: get_weather of a city whose lowercased form is "new york" returns
\* the success variant with the one fixed report, whatever the casing.
C3_WeatherSupported ==
    \A t \in Callers :
      (Returned(t) /\ frame[t].fn = "get_weather" /\ Supported(t)) =>
        Result(t) =
          [status |-> "success",
           report |->
             << "T", "h", "e", " ", "w", "e", "a", "t", "h", "e", "r", " ",
                "i", "n", " ", "N", "e", "w", " ", "Y", "o", "r", "k", " ",
                "i", "s", " ", "s", "u", "n", "n", "y", " ", "w", "i", "t",
                "h", " ", "a", " ", "t", "e", "m", "p", "e", "r", "a", "t",
                "u", "r", "e", " ", "o", "f", " ", "2", "5", " " >>
             \o << "d", "e", "g", "r", "e", "e", "s", " ", "C", "e", "l",
                   "s", "i", "u", "s", " ", "(", "7", "7", " ", "d", "e",
                   "g", "r", "e", "e", "s", " ", "F", "a", "h", "r", "e",
                   "n", "h", "e", "i", "t", ")", "." >>]

C3_Witness ==
    /\ Returned("c1") /\ frame["c1"].fn = "get_weather"
    /\ frame["c1"].city = << "N", "e", "w", " ", "Y", "o", "r", "k" >>
    /\ Returned("c2") /\ frame["c2"].fn = "get_weather"
    /\ frame["c2"].city = << "N", "E", "W", " ", "Y", "O", "R", "K" >>
    /\ Result("c1") = Result("c2")

\* C4: get_current_time of a city whose lowercased form is not "new york"
\* attempts no zone lookup, clock read or formatting, and returns the error
\* variant with the message "Sorry, I don't have timezone information for
\* <city>.", the city as given.
C4_TimeUnsupported ==
    \A t \in Callers :
      (frame[t].fn = "get_current_time" /\ ~Supported(t)) =>
        /\ frame[t].tried = {}
        /\ frame[t].tz = Unbound
        /\ frame[t].instant = 0
        /\ Returned(t) =>
             Result(t) =
               [status |-> "error",
                error_message |->
                  << "S", "o", "r", "r", "y", ",", " ", "I", " ", "d", "o",
                     "n", "'", "t", " ", "h", "a", "v", "e", " ", "t", "i",
                     "m", "e", "z", "o", "n", "e", " ", "i", "n", "f", "o",
                     "r", "m", "a", "t", "i", "o", "n", " ", "f", "o", "r",
                     " " >>
                  \o frame[t].city \o << "." >>]

C4_Witness ==
    /\ Returned("c1") /\ frame["c1"].fn = "get_current_time"
    /\ frame["c1"].city = << "L", "o", "n", "d", "o", "n" >>
    /\ Result("c1").status = "error"
    /\ Result("c1").error_message =
         << "S", "o", "r", "r", "y", ",", " ", "I", " ", "d", "o", "n", "'",
            "t", " ", "h", "a", "v", "e", " ", "t", "i", "m", "e", "z",
            "o", "n", "e", " ", "i", "n", "f", "o", "r", "m", "a", "t",
            "i", "o", "n", " ", "f", "o", "r", " ", "L", "o", "n", "d",
            "o", "n", "." >>

\* C5: no exception leaves a tool; a failure of the zone lookup, the clock
\* read or the formatting for a supported city is caught and returned as
\* the error variant whose message embeds the failure's text; and an error
\* for a supported city comes from such a failure alone.
C5_FailureCaught ==
    \A t \in Callers :
      /\ frame[t].pc # "raised"
      /\ (Returned(t) /\ frame[t].fn = "get_current_time" /\ Supported(t)) =>
           /\ frame[t].exc # NoException =>
                Result(t) =
                  [status |-> "error",
                   error_message |->
                     << "E", "r", "r", "o", "r", " ", "g", "e", "t", "t",
                        "i", "n", "g", " ", "t", "i", "m", "e", " ", "f",
                        "o", "r", " " >> \o frame[t].city
                     \o << ":", " " >> \o frame[t].exc.msg]
           /\ Result(t).status = "error" =>
                /\ frame[t].exc # NoException
                /\ frame[t].tried # {}
                /\ platform # "ok"
           /\ platform = "no_tzdata" => frame[t].exc = ZoneInfoNotFoundError
           /\ platform = "no_clock" => frame[t].exc = ClockError
           /\ platform = "no_strftime" => frame[t].exc = FormatError

C5_Witness ==
    /\ platform = "no_clock"
    /\ Returned("c1") /\ frame["c1"].fn = "get_current_time"
    /\ frame["c1"].city = << "N", "e", "w", " ", "Y", "o", "r", "k" >>
    /\ Result("c1").status = "error"
    /\ Result("c1").error_message =
         << "E", "r", "r", "o", "r", " ", "g", "e", "t", "t", "i", "n", "g",
            " ", "t", "i", "m", "e", " ", "f", "o", "r", " ", "N", "e",
            "w", " ", "Y", "o", "r", "k", ":", " ", "[", "E", "r", "r",
            "n", "o", " ", "2", "2", "]", " ", "I", "n", "v", "a", "l",
            "i", "d", " ", "a", "r", "g", "u", "m", "e", "n", "t" >>

\* The text after "The current time in <city> is ".
Timestamp(t) ==
    SubSeq(Result(t).report,
           Len(<< "T", "h", "e", " ", "c", "u", "r", "r", "e", "n", "t",
                  " ", "t", "i", "m", "e", " ", "i", "n", " " >>) + Len(frame[t].city)
             + Len(<< " ", "i", "s", " " >>) + 1,
           Len(Result(t).report))

\* ts reads YYYY-MM-DD HH:MM:SS, a zone abbreviation and a signed hhmm
\* offset, and names the instant the clock showed, in New York's time.
NamesInstant(ts, instant) ==
    /\ Len(ts) = 28
    /\ \A i \in { 1, 2, 3, 4, 6, 7, 9, 10, 12, 13, 15, 16, 18, 19,
                  25, 26, 27, 28 } : IsDigit(ts[i])
    /\ ts[5] = "-" /\ ts[8] = "-" /\ ts[11] = " "
    /\ ts[14] = ":" /\ ts[17] = ":" /\ ts[20] = " "
    /\ ts[24] \in { "+", "-" }
    /\ LET year   == Number(ts, 1, 4)
           month  == Number(ts, 6, 7)
           day    == Number(ts, 9, 10)
           hour   == Number(ts, 12, 13)
           minute == Number(ts, 15, 16)
           second == Number(ts, 18, 19)
           abbr   == SubSeq(ts, 21, 23)
           ahead  == (Number(ts, 25, 26) * 60 + Number(ts, 27, 28)) * 60
           offset == IF ts[24] = "-" THEN -ahead ELSE ahead
       IN  /\ month \in 1..12 /\ day \in 1..31
           /\ hour \in 0..23 /\ minute \in 0..59 /\ second \in 0..59
           /\ \/ abbr = << "E", "S", "T" >> /\ offset = -18000
              \/ abbr = << "E", "D", "T" >> /\ offset = -14400
           /\ DaysFromCivil(year, month, day) * 86400
                + hour * 3600 + minute * 60 + second - offset = instant

\* C6: get_current_time of a city whose lowercased form is "new york",
\* when zone lookup, clock read and formatting succeed, returns the success
\* variant whose report gives New York's wall-clock time at the clock's
\* instant as YYYY-MM-DD HH:MM:SS, then the zone abbreviation and offset.
C6_TimeSupported ==
    \A t \in Callers :
      (Returned(t) /\ frame[t].fn = "get_current_time" /\ Supported(t)
         /\ frame[t].exc = NoException) =>
        /\ DOMAIN Result(t) = { "status", "report" }
        /\ Result(t).status = "success"
        /\ SubSeq(Result(t).report, 1, Len(Result(t).report) - 28) =
             << "T", "h", "e", " ", "c", "u", "r", "r", "e", "n", "t", " ",
                "t", "i", "m", "e", " ", "i", "n", " " >>
             \o frame[t].city
             \o << " ", "i", "s", " " >>
        /\ NamesInstant(Timestamp(t), frame[t].instant)

C6_Witness ==
    /\ Returned("c1") /\ frame["c1"].fn = "get_current_time"
    /\ frame["c1"].city = << "n", "e", "w", " ", "y", "o", "r", "k" >>
    /\ Result("c1").status = "success"
    /\ Result("c1").report =
         << "T", "h", "e", " ", "c", "u", "r", "r", "e", "n", "t", " ", "t",
            "i", "m", "e", " ", "i", "n", " ", "n", "e", "w", " ", "y",
            "o", "r", "k", " ", "i", "s", " ", "2", "0", "2", "5", "-",
            "0", "7", "-", "0", "1", " ", "0", "8", ":", "3", "4", ":",
            "5", "6", " ", "E", "D", "T", "-", "0", "4", "0", "0" >>

\* What two results of get_current_time for one city have in common.
WithoutTimestamp(d) ==
    IF d.status = "success"
    THEN [d EXCEPT !.report = SubSeq(@, 1, Len(@) - 28)]
    ELSE d

\* C7: a tool's result does not depend on the calls made before: two
\* results of get_weather for one city are equal, and two results of
\* get_current_time for one city differ in the timestamp at most.
C7_Stateless ==
    \A t, u \in Callers :
      (Returned(t) /\ Returned(u) /\ frame[t].fn = frame[u].fn
         /\ frame[t].city = frame[u].city) =>
        IF frame[t].fn = "get_weather"
        THEN Result(t) = Result(u)
        ELSE WithoutTimestamp(Result(t)) = WithoutTimestamp(Result(u))

C7_Witness ==
    /\ ncalls = 3
    /\ Returned("c1") /\ Returned("c2")
    /\ frame["c1"].fn = "get_current_time"
    /\ frame["c2"].fn = "get_current_time"
    /\ frame["c1"].city = << "N", "E", "W", " ", "Y", "O", "R", "K" >>
    /\ frame["c2"].city = << "N", "E", "W", " ", "Y", "O", "R", "K" >>
    /\ frame["c1"].result = 1
    /\ frame["c2"].result = 3
    /\ Result("c1") # Result("c2")

\* What call fn(city) returns when nothing runs beside it, the clock
\* showing instant when the call reads it.
RunAlone(fn, city, instant) ==
    IF fn = "get_weather" THEN get_weather_result(city)
    ELSE IF ~IsSupported(city) THEN time_unsupported_result(city)
    ELSE IF platform = "no_tzdata"
    THEN time_failure_result(city, ZoneInfoNotFoundError)
    ELSE IF platform = "no_clock" THEN time_failure_result(city, ClockError)
    ELSE IF platform = "no_strftime"
    THEN time_failure_result(city, FormatError)
    ELSE time_success_result(city, AwareNow[instant])

\* Each returned result is the one the call yields when run alone, and no
\* two calls refer to one dict.
C8_Isolated ==
    /\ \A t \in Callers :
         Returned(t) =>
           Result(t) = RunAlone(frame[t].fn, frame[t].city, frame[t].instant)
    /\ \A t, u \in Callers :
         (t # u /\ frame[t].result # 0) => frame[t].result # frame[u].result

\* A step of the tools leaves the module's globals and the environment as
\* they are, and a dict a call refers to is not changed by any step.
C8_NothingShared ==
    /\ (frame' # frame \/ heap' # heap) =>
         UNCHANGED << module_globals, platform >>
    /\ \A t \in Callers :
         (frame[t].result # 0 /\ frame'[t].result = frame[t].result) =>
           heap'[frame[t].result] = heap[frame[t].result]

C9_KeyChecked ==
    /\ (root_agent # Unbound \/ prompts # <<>> \/ ncalls > 0
          \/ pc[1] \in { "construct_agent", "ask", "execute", "finish", "done" }
          \/ \E t \in Callers : frame[t].pc # "idle") =>
         /\ GOOGLE_API_KEY \notin { Unbound, NoneValue, "" }
         /\ GOOGLE_API_KEY = environ
    /\ (GOOGLE_API_KEY \in { NoneValue, "" } /\ pc[1] # "check_key") =>
         /\ pc = << "exit", "" >>
         /\ uncaught = "ValueError"
         /\ root_agent = Unbound
         /\ prompts = <<>>
         /\ ncalls = 0

C9_Witness ==
    /\ GOOGLE_API_KEY = ""
    /\ pc = << "exit", "" >>
    /\ uncaught = "ValueError"

\* The prompts of the script, in its order.
AllPrompts == [i \in 1..Len(Stages) |-> Prompt(Stages[i])]

\* The prompts issued so far are the first ones of the script, in order;
\* all three have been issued when the script is at its last statement.
C10_InOrder ==
    /\ Len(prompts) <= Len(AllPrompts)
    /\ prompts = SubSeq(AllPrompts, 1, Len(prompts))
    /\ pc[1] \in { "finish", "done" } => prompts = AllPrompts
    /\ pc[1] \in { "ask", "execute" } =>
         Len(prompts) = StageIndex(pc[2]) - (IF pc[1] = "ask" THEN 1 ELSE 0)

\* An execution that ends, by a return or by an exception, is reported
\* and followed by the next prompt, or by the last statement.
C10_Continues ==
    (pc[1] = "execute" /\ pc' # pc) =>
      /\ pc' = AfterStage(pc[2])
      /\ last_printed' \in { "Result: " \o pc[2],
                             "Error during execution: " \o pc[2] }
      /\ uncaught' = ""

\* C10: once the agent is constructed, the script issues its three
\* prompts in order, each once, an exception of one execution is caught
\* and reported, and the script reaches its last statement.
C10_ThreePrompts ==
    /\ [](C10_InOrder)
    /\ [][C10_Continues]_vars
    /\ (root_agent # Unbound) ~> (pc = << "done", "" >>)

\* The last execution raised, was reported, and the script goes on to
\* its last statement with the three prompts issued.
C10_Witness ==
    /\ pc = << "finish", "" >>
    /\ last_printed = "Error during execution: unsupported"
    /\ prompts = AllPrompts

====
